---- MODULE Spec2Model ----
(***************************************************************************)
(* Hybrid retrieval-and-rerank engine of nail-art-search.                  *)
(*                                                                         *)
(*   backend/pinecone_client.py   PineconeClient.search_similar            *)
(*   backend/color_similarity.py  histogram extraction, (de)serialisation, *)
(*                                Bhattacharyya distance, similarity       *)
(*   backend/search_config.py     SearchConfig                             *)
(*   backend/enhanced_search.py   enhanced_similarity_search (the pipeline)*)
(*                                                                         *)
(* Numbers.  Scores, thresholds and weights are floats in the program.     *)
(* Here they are fixed-point integers with three decimals: 1.0 is Scale.   *)
(* A product of a weight and a score, and so final_score, is in units of   *)
(* 1/(Scale*Scale).  Histogram bins hold multiples of 1/HistUnit.          *)
(* Float rounding is not modelled.                                         *)
(***************************************************************************)
EXTENDS Integers, Sequences, FiniteSets, TLC

Scale == 10 * 10 * 10
HistUnit == 2 * 2

\* Bounds of the model.
MaxTopK == 2
MaxMatches == 3

\* "top_k": min(top_k * 2, 100)
BackendMax == 100

\* search_config.py defaults, in fixed point.
DefaultThreshold == 700
DefaultVectorWeight == 700
DefaultColorWeight == 300
DefaultA == 6
DefaultB == -3

ScoreVals == {500, DefaultThreshold}
Thresholds == {500, DefaultThreshold, Scale}
Weights == {<<DefaultVectorWeight, DefaultColorWeight>>, <<Scale, 0>>, <<0, Scale>>}
HistBins == {2}
FileNames == {"a.jpg", "b.jpg"}
Images == {"corrupt", "red"}

NoError == "none"

(***************************************************************************)
(* Python helpers                                                          *)
(***************************************************************************)
Min(a, b) == IF a <= b THEN a ELSE b
Max(a, b) == IF a >= b THEN a ELSE b

\* list[:k], with Python's meaning of a negative k.
PySlice(s, k) ==
    LET n == IF k >= 0 THEN Min(k, Len(s)) ELSE Max(Len(s) + k, 0)
    IN  SubSeq(s, 1, n)

\* list.sort(key=..., reverse=True): stable, equal keys keep their order.
\* keys[i] is the key of s[i].
PySortPosition(keys, i) ==
    Cardinality({j \in DOMAIN keys :
                    keys[j] > keys[i] \/ (keys[j] = keys[i] /\ j < i)}) + 1

PySortDesc(s, keys) ==
    [r \in DOMAIN s |-> s[CHOOSE i \in DOMAIN s : PySortPosition(keys, i) = r]]

\* Optional values: None, or a value.
None == [ok |-> FALSE, v |-> <<>>]
Some(x) == [ok |-> TRUE, v |-> x]

(***************************************************************************)
(* search_config.py                                                        *)
(***************************************************************************)
\* SearchConfig.__post_init__: "ok", or the ValueError it raises.
PostInit(c) ==
    IF c.vector_top_k < c.final_top_k THEN "ValueError"
    ELSE IF c.histogram_bins <= 0 THEN "ValueError"
    ELSE "ok"

ConfigFields ==
    [vector_top_k : 1..MaxTopK,
     final_top_k : -1..MaxTopK,
     similarity_threshold : Thresholds,
     histogram_bins : HistBins,
     bhattacharyya_a : {DefaultA},
     bhattacharyya_b : {DefaultB},
     vector_weight : {w[1] : w \in Weights},
     color_weight : {w[2] : w \in Weights}]

\* The configs that construction accepts.
Configs ==
    {c \in ConfigFields :
        /\ PostInit(c) = "ok"
        /\ <<c.vector_weight, c.color_weight>> \in Weights}

\* get_config_dict
get_config_dict(c) == c

(***************************************************************************)
(* color_similarity.py                                                     *)
(***************************************************************************)
\* A JSON text: k = "null" (None), "empty" (""), "bad" (not JSON),
\* "list" (a JSON list, v its items; "[]" is the list with no item).
JsonNull == [k |-> "null", v |-> <<>>]
JsonEmptyList == [k |-> "list", v |-> <<>>]

\* extract_lab_histogram: None when the bytes do not decode.  A decodable
\* image gives bins^3 entries that sum to 1; "red" has one colour.
extract_lab_histogram(image, bins) ==
    IF image = "corrupt" THEN None
    ELSE Some([i \in 1..(bins * bins * bins) |-> IF i = 1 THEN HistUnit ELSE 0])

\* A histogram of another colour, and one of the same colour as "red".
BlueHistogram(bins) ==
    [i \in 1..(bins * bins * bins) |-> IF i = 2 THEN HistUnit ELSE 0]
RedHistogram(bins) ==
    [i \in 1..(bins * bins * bins) |-> IF i = 1 THEN HistUnit ELSE 0]

histogram_to_json(h) == [k |-> "list", v |-> h]

\* Variant of the next definition without the test for "[]".
HistogramFromJsonNoEmptyList(j) ==
    IF j.k \in {"null", "empty"} THEN None
    ELSE IF j.k = "bad" THEN None
    ELSE Some(j.v)

\* histogram_from_json: None for a falsy argument, for "[]" and when
\* json.loads or np.array raises.
histogram_from_json(j) ==
    IF j.k \in {"null", "empty"} \/ j = JsonEmptyList THEN None
    ELSE IF j.k = "bad" THEN None
    ELSE Some(j.v)

ISqrt(n) == CHOOSE r \in 0..n : r * r <= n /\ (r + 1) * (r + 1) > n

RECURSIVE SumSqrt(_, _, _)
SumSqrt(h1, h2, i) ==
    IF i > Len(h1) THEN 0
    ELSE ISqrt(h1[i] * h2[i]) + SumSqrt(h1, h2, i + 1)

\* -ln(1e-10), in units of 1/Scale.
MaxDistance == 23026

\* What float arithmetic gives for -ln(0); any value above MaxDistance acts
\* the same in the min below.
Infinity == 2 * MaxDistance

\* -ln(bc), bc in units of 1/HistUnit and the result in units of 1/Scale
\* (a table; above bc = 2 * HistUnit it gives the value at 2 * HistUnit, an
\* upper bound).
NegLog(bc) ==
    IF bc <= 0 THEN Infinity
    ELSE IF bc = 1 THEN 1386
    ELSE IF bc = 2 THEN 693
    ELSE IF bc = 3 THEN 288
    ELSE IF bc = HistUnit THEN 0
    ELSE IF bc = 5 THEN -223
    ELSE IF bc = 6 THEN -405
    ELSE IF bc = 7 THEN -560
    ELSE -693

\* Variant of the next definition without np.clip.
NegLogUnclipped(bc) == NegLog(bc)

\* -np.log(np.clip(bc, 1e-10, 1.0)): a coefficient of 0 is raised to 1e-10,
\* one above 1 is lowered to 1.
NegLogClipped(bc) ==
    IF bc <= 0 THEN MaxDistance
    ELSE NegLog(Min(bc, HistUnit))

\* min(-ln(clip(bc, 1e-10, 1)) / -ln(1e-10), 1.0), bc in units of 1/HistUnit,
\* the result in units of 1/Scale.
NormalizedNegLog(bc) ==
    Min((NegLogClipped(bc) * Scale) \div MaxDistance, Scale)

\* The outcome of a call: a value, or an exception.
Returned(v) == [raised |-> FALSE, value |-> v]
Raised == [raised |-> TRUE, value |-> 0]

\* "except Exception as e: ... return fallback" around a try body.
CatchAll(outcome, fallback) ==
    IF outcome.raised THEN Returned(fallback) ELSE outcome

\* The try body of calculate_bhattacharyya_distance: a shape mismatch raises
\* ValueError.
DistanceTry(h1, h2) ==
    IF Len(h1) # Len(h2) THEN Raised
    ELSE Returned(NormalizedNegLog(SumSqrt(h1, h2, 1)))

\* calculate_bhattacharyya_distance as its caller sees it: the except clause
\* returns 1.0 for whatever the try body raised.
DistanceCall(h1, h2) == CatchAll(DistanceTry(h1, h2), Scale)

calculate_bhattacharyya_distance(h1, h2) == DistanceCall(h1, h2).value

\* 1 / (1 + exp(-x)), x and the result in units of 1/Scale (a step table).
Sigmoid(x) ==
    IF x >= 3000 THEN 953
    ELSE IF x >= 2928 THEN 949
    ELSE IF x >= 2820 THEN 944
    ELSE IF x >= 2640 THEN 933
    ELSE IF x >= 1000 THEN 731
    ELSE IF x >= 0 THEN 500
    ELSE IF x > -3000 THEN 269
    ELSE 47

bhattacharyya_to_similarity(d, a, b) == Sigmoid(a * (Scale - d) + b * Scale)

\* The try body of calculate_color_similarity; the functions it calls catch
\* their own exceptions.
SimilarityTry(j1, j2, a, b) ==
    LET hist1 == histogram_from_json(j1)
        hist2 == histogram_from_json(j2)
    IN  IF ~hist1.ok \/ ~hist2.ok THEN Returned(0)
        ELSE Returned(bhattacharyya_to_similarity(
                 calculate_bhattacharyya_distance(hist1.v, hist2.v), a, b))

\* calculate_color_similarity as its caller sees it.
SimilarityCall(j1, j2, a, b) == CatchAll(SimilarityTry(j1, j2, a, b), 0)

calculate_color_similarity(j1, j2, a, b) == SimilarityCall(j1, j2, a, b).value

(***************************************************************************)
(* pinecone_client.py                                                      *)
(***************************************************************************)
\* What index.query can give: an exception, or matches.  A match is
\* {id, score, metadata}; of the metadata only "filename" is read ("" when
\* the key is missing).  Ids are unique in an index.
Matches == [id : 1..MaxMatches, score : ScoreVals, filename : FileNames \cup {""}]

MatchSeqs(limit) ==
    UNION {{s \in [1..n -> Matches] : \A i \in 1..n : s[i].id = i} :
            n \in 0..Min(limit, MaxMatches)}

\* The match for an item whose embedding was made from the bytes of the
\* query: cosine similarity 1.
ExactMatch == [id |-> 1, score |-> Scale, filename |-> "a.jpg"]

\* What the index returns when it holds that item: the item first, as the
\* index orders its matches by score, then other matches.
ExactMatchSeqs(limit) ==
    {s \in UNION {[1..n -> Matches \cup {ExactMatch}] : n \in 1..Min(limit, MaxMatches)} :
        /\ s[1] = ExactMatch
        /\ \A i \in DOMAIN s : s[i].id = i /\ (i > 1 => s[i] \in Matches)}

IndexRaised == [kind |-> "raised", matches |-> <<>>]
IndexReturned(ms) == [kind |-> "matches", matches |-> ms]
NoResponse == [kind |-> "none", matches |-> <<>>]

\* "top_k": min(top_k * 2, 100)
FetchLimit(top_k) == Min(top_k * 2, BackendMax)

\* Variant of the next definition that lets a score equal to the threshold
\* fail.
MeetsThresholdStrictly(score, threshold) == score > threshold

\* "if match.score >= similarity_threshold" (line 130).
MeetsThreshold(score, threshold) == score >= threshold

\* Variant of the next definition that stops at the first passing match.
EnoughResultsAfterOne(processed, top_k) == Len(processed) >= 1

\* "if len(processed_results) >= top_k: break" (lines 134-135).
EnoughResults(processed, top_k) == Len(processed) >= top_k

\* The for loop over results.matches (lines 121-135): processed_results and
\* all_results after scanning from match i on.
RECURSIVE ScanMatches(_, _, _, _, _, _)
ScanMatches(matches, i, processed, all, top_k, threshold) ==
    IF i > Len(matches) THEN [processed |-> processed, all |-> all]
    ELSE LET result == matches[i]
             all2 == Append(all, result)
             processed2 == IF MeetsThreshold(result.score, threshold)
                           THEN Append(processed, result) ELSE processed
         IN  IF EnoughResults(processed2, top_k)
             THEN [processed |-> processed2, all |-> all2]
             ELSE ScanMatches(matches, i + 1, processed2, all2, top_k, threshold)

\* Variant of the next definition without the fallback.
FallbackMissing(scan, top_k) == scan.processed
\* Fallback (lines 137-140).
Fallback(scan, top_k) ==
    IF scan.processed = <<>> /\ scan.all # <<>>
    THEN PySlice(scan.all, top_k)
    ELSE scan.processed

\* Variant of the next definition without the sort.
LimitWithoutSort(results, top_k) == PySlice(results, top_k)
\* Sort by score and limit to top_k (lines 142-144).
SortAndLimit(results, top_k) ==
    PySlice(PySortDesc(results, [i \in DOMAIN results |-> results[i].score]), top_k)

\* PineconeClient.search_similar: the except clause returns [].
search_similar(response, top_k, threshold) ==
    IF response.kind = "raised" THEN <<>>
    ELSE SortAndLimit(
             Fallback(ScanMatches(response.matches, 1, <<>>, <<>>, top_k, threshold),
                      top_k),
             top_k)

(***************************************************************************)
(* enhanced_search.py                                                      *)
(***************************************************************************)
VARIABLES
    pc,                   \* stage of enhanced_similarity_search
    image,                \* image_bytes
    config,               \* config
    query_histogram_json, \* query_histogram_json
    index_response,       \* what index.query gave inside search_similar
    vector_results,       \* vector_results
    histogram_map,        \* histogram_map
    enhanced_results,     \* enhanced_results, after the sort
    final_results,        \* final_results
    response,             \* the returned dict
    calls,                \* the external calls made so far
    faults                \* the external calls that failed

\* Whether the index and the store hold an item that was ingested from the
\* very bytes of the query image.
VARIABLE stored_same_bytes

searchVars == <<pc, image, config, query_histogram_json, index_response, vector_results,
                histogram_map, enhanced_results, final_results, response, calls, faults,
                stored_same_bytes>>

\* search_config.py: the process environment, the SearchConfig objects made
\* so far (an object is named by its place in cfg_heap), the module global
\* _config and the object a running query took (0 is None), and the last
\* call of the SearchConfig constructor.  Of the running query also the
\* config dictionary it put in its response at the start and the parameters
\* its last stage read.
VARIABLES
    env,
    cfg_heap,
    global_config,
    query_config,
    last_construct,
    query_echo,
    query_used

configVars == <<env, cfg_heap, global_config, query_config, last_construct,
                query_echo, query_used>>

\* enhanced_embed.py: the module globals _model, _processor and _model_loaded
\* (a reference is the place of the object in its heap, 0 is None), the CLIP
\* model objects made so far, the number of processors made so far, and each
\* caller of get_clip_model: where it is, the model it holds in a local, what
\* it was handed, and how many calls have been made.  overlapped records that
\* some call began while another call was running.
VARIABLES
    clip_model,
    clip_processor,
    model_loaded,
    model_heap,
    processor_count,
    caller_pc,
    caller_local,
    caller_ret,
    call_count,
    overlapped

clipVars == <<clip_model, clip_processor, model_loaded, model_heap, processor_count,
              caller_pc, caller_local, caller_ret, call_count, overlapped>>

\* pinecone_client.py batch_store, as migrate_to_pinecone_safe.py calls it:
\* the number of batches uploaded so far, the last batch (one entry per item,
\* whether the client could be created and whether the index answered), what
\* batch_store and upload_batch_to_pinecone returned for it, and the
\* items the index holds (batch number and place in the batch).
VARIABLES
    batch_num,
    last_batch,
    batch_returned,
    upload_returned,
    index_items

batchVars == <<batch_num, last_batch, batch_returned, upload_returned, index_items>>

\* color_similarity.py called on its own: two histogram arrays, the kind of
\* JSON text each is passed as, and the outcomes of
\* calculate_bhattacharyya_distance and calculate_color_similarity on them.
VARIABLES
    hist_a,
    hist_b,
    json_kind_a,
    json_kind_b,
    distance_result,
    similarity_result

colorVars == <<hist_a, hist_b, json_kind_a, json_kind_b, distance_result,
               similarity_result>>

\* enhanced_ingestion.py enhanced_batch_ingestion: where the function is, its
\* arguments (one entry per image path and the two upload flags as the loop
\* sees them), the number of loop iterations done, the places of the paths
\* attempted in order, what each attempt added to processed and errors, and
\* the stats dictionary.
VARIABLES
    ingest_pc,
    image_paths,
    supabase_upload,
    pinecone_upload,
    loop_i,
    attempted,
    item_counts,
    stats

ingestVars == <<ingest_pc, image_paths, supabase_upload, pinecone_upload, loop_i,
                attempted, item_counts, stats>>

vars == <<searchVars, configVars, clipVars, batchVars, colorVars, ingestVars>>

NoConstruct == [called |-> FALSE, args |-> <<>>, outcome |-> "none", warned |-> FALSE]
NoEnv == [VECTOR_TOP_K |-> [set |-> FALSE, int |-> FALSE, n |-> 0],
          FINAL_TOP_K |-> [set |-> FALSE, int |-> FALSE, n |-> 0],
          HISTOGRAM_BINS |-> [set |-> FALSE, int |-> FALSE, n |-> 0]]

\* search_config.py takes no step.
ConfigIdle ==
    /\ env = NoEnv
    /\ cfg_heap = <<>>
    /\ global_config = 0
    /\ query_config = 0
    /\ last_construct = NoConstruct
    /\ query_echo = None
    /\ query_used = None

\* Callers of get_clip_model.
MaxCallers == 2
Callers == 1..MaxCallers

NoReturn == [model |-> 0, processor |-> 0]

\* enhanced_embed.py is freshly imported and nobody has called it.
ClipIdle ==
    /\ clip_model = 0
    /\ clip_processor = 0
    /\ model_loaded = FALSE
    /\ model_heap = <<>>
    /\ processor_count = 0
    /\ caller_pc = [t \in Callers |-> "idle"]
    /\ caller_local = [t \in Callers |-> 0]
    /\ caller_ret = [t \in Callers |-> NoReturn]
    /\ call_count = 0
    /\ overlapped = FALSE

\* No batch has been uploaded.
BatchIdle ==
    /\ batch_num = 0
    /\ last_batch = [items |-> <<>>, client_ok |-> FALSE, index_up |-> FALSE]
    /\ batch_returned = 0
    /\ upload_returned = FALSE
    /\ index_items = {}

NotCalled == [called |-> FALSE, raised |-> FALSE, value |-> 0]

\* color_similarity.py has not been called on its own.
ColorIdle ==
    /\ hist_a = <<>>
    /\ hist_b = <<>>
    /\ json_kind_a = "null"
    /\ json_kind_b = "null"
    /\ distance_result = NotCalled
    /\ similarity_result = NotCalled

NoStats == [total_images |-> 0, processed |-> 0, supabase_stored |-> 0,
            pinecone_stored |-> 0, errors |-> 0]

\* enhanced_batch_ingestion has not been called.
IngestIdle ==
    /\ ingest_pc = "idle"
    /\ image_paths = <<>>
    /\ supabase_upload = FALSE
    /\ pinecone_upload = FALSE
    /\ loop_i = 0
    /\ attempted = <<>>
    /\ item_counts = <<>>
    /\ stats = NoStats

\* What a step of each component leaves alone.
SearchFrame ==
    UNCHANGED <<stored_same_bytes, configVars, clipVars, batchVars, colorVars, ingestVars>>
ConfigFrame == UNCHANGED <<searchVars, clipVars, batchVars, colorVars, ingestVars>>
ClipFrame == UNCHANGED <<searchVars, configVars, batchVars, colorVars, ingestVars>>
BatchFrame == UNCHANGED <<searchVars, configVars, clipVars, colorVars, ingestVars>>
ColorFrame == UNCHANGED <<searchVars, configVars, clipVars, batchVars, ingestVars>>
IngestFrame == UNCHANGED <<searchVars, configVars, clipVars, batchVars, colorVars>>

\* An empty dict of filename -> histogram JSON.
NoHistograms == [f \in {} |-> JsonNull]

NoResponseYet == [results |-> <<>>, error |-> NoError, message |-> "", config |-> <<>>]

\* Variant of the next definition that returns the candidates selected so far.
SearchFailedWithPartial(e) ==
    [results |-> final_results, error |-> e, message |-> "Search failed",
     config |-> get_config_dict(config)]

\* The except clause (lines 239-247).
SearchFailed(e) ==
    [results |-> <<>>, error |-> e, message |-> "Search failed",
     config |-> get_config_dict(config)]

Init ==
    /\ pc = "histogram"
    /\ image \in Images
    /\ config \in Configs
    /\ query_histogram_json = JsonNull
    /\ index_response = NoResponse
    /\ vector_results = <<>>
    /\ histogram_map = NoHistograms
    /\ enhanced_results = <<>>
    /\ final_results = <<>>
    /\ response = NoResponseYet
    /\ calls = {}
    /\ faults = {}
    /\ stored_same_bytes = FALSE
    /\ ConfigIdle
    /\ ClipIdle
    /\ BatchIdle
    /\ ColorIdle
    /\ IngestIdle

\* Variant of the next definition without the check.
HistogramMissingUnchecked(query_histogram) == FALSE
\* "if query_histogram is None: raise ValueError" (lines 97-98).
HistogramMissing(query_histogram) == ~query_histogram.ok

\* Step 1 (lines 92-101).
ExtractQueryHistogram ==
    /\ pc = "histogram"
    /\ SearchFrame
    /\ LET query_histogram == extract_lab_histogram(image, config.histogram_bins)
       IN  IF HistogramMissing(query_histogram)
           THEN /\ response' = SearchFailed("Failed to extract histogram from query image")
                /\ pc' = "done"
                /\ faults' = faults \cup {"decode"}
                /\ UNCHANGED query_histogram_json
           ELSE /\ query_histogram_json' = histogram_to_json(query_histogram.v)
                /\ pc' = "embedding"
                /\ UNCHANGED <<response, faults>>
    /\ calls' = calls \cup {"decode"}
    /\ UNCHANGED <<image, config, index_response, vector_results, histogram_map,
                   enhanced_results, final_results>>

\* get_clip_embedding returns the vector or re-raises (enhanced_embed.py).
EmbeddingOutcomes == {"ok", "raise"}

\* Variant of the next definition that swallows the exception.
EmbeddingRaisedSwallowed(query_embedding) == FALSE
\* An exception of get_clip_embedding leaves the try block (line 239).
EmbeddingRaised(query_embedding) == query_embedding = "raise"

\* Step 2 (lines 103-111).
GenerateQueryEmbedding ==
    /\ pc = "embedding"
    /\ SearchFrame
    /\ \E query_embedding \in EmbeddingOutcomes :
          /\ faults' = IF query_embedding = "ok" THEN faults
                       ELSE faults \cup {"embedding"}
          /\ IF EmbeddingRaised(query_embedding)
             THEN /\ response' = SearchFailed("embedding error")
                  /\ pc' = "done"
             ELSE IF query_embedding = "none"
             THEN /\ response' = SearchFailed("Failed to generate CLIP embedding")
                  /\ pc' = "done"
             ELSE /\ pc' = "vector_search"
                  /\ UNCHANGED response
    /\ calls' = calls \cup {"embedding"}
    /\ UNCHANGED <<image, config, query_histogram_json, index_response, vector_results,
                   histogram_map, enhanced_results, final_results>>

\* The response of "No similar images found" (lines 127-133).
NoSimilarImages ==
    [results |-> <<>>, error |-> NoError, message |-> "No similar images found",
     config |-> get_config_dict(config)]

\* Variant of the next definition without the early return.
NoVectorResultsUnchecked(results) == FALSE
\* "if not vector_results" (line 127).
NoVectorResults(results) == results = <<>>

\* Step 3 (lines 113-133): the client is constructed, then search_similar
\* runs.  The constructor connects and raises when it cannot; the call at
\* line 117 also passes no api_key, which __init__ of pinecone_client.py
\* requires, so with that class as it stands the construction raises.  Both
\* outcomes of the construction are modelled.  The response of the index is
\* kept until the next stage starts.
VectorSearch ==
    /\ pc = "vector_search"
    /\ SearchFrame
    /\ \E connected \in BOOLEAN :
          IF ~connected
          THEN /\ response' = SearchFailed("pinecone client error")
               /\ pc' = "done"
               /\ faults' = faults \cup {"index_connect"}
               /\ calls' = calls \cup {"index_connect"}
               /\ UNCHANGED <<index_response, vector_results>>
          ELSE \E r \in {IndexRaised} \cup
                        {IndexReturned(ms) :
                           ms \in IF stored_same_bytes
                                  THEN ExactMatchSeqs(FetchLimit(config.vector_top_k))
                                  ELSE MatchSeqs(FetchLimit(config.vector_top_k))} :
                  /\ index_response' = r
                  /\ vector_results' =
                        search_similar(r, config.vector_top_k, config.similarity_threshold)
                  /\ calls' = calls \cup {"index_connect", "index_query"}
                  /\ faults' = IF r.kind = "raised" THEN faults \cup {"index_query"} ELSE faults
                  /\ IF NoVectorResults(vector_results')
                     THEN /\ response' = NoSimilarImages
                          /\ pc' = "done"
                     ELSE /\ pc' = "histogram_fetch"
                          /\ UNCHANGED response
    /\ UNCHANGED <<image, config, query_histogram_json, histogram_map,
                   enhanced_results, final_results>>

\* The filenames a list of results names, empty ones removed (lines 139-140).
Filenames(results) ==
    {results[i].filename : i \in DOMAIN results} \ {""}

\* What the lab_histogram column of a row can hold: NULL (or no row), "[]",
\* or the histogram of an image.
StoredHistograms(bins) ==
    {JsonNull, JsonEmptyList,
     histogram_to_json(RedHistogram(bins)), histogram_to_json(BlueHistogram(bins))}

\* The rows the store can return for the filenames asked for; the row of an
\* item ingested from the bytes of the query holds the histogram of the query.
StoredRows(filenames, bins) ==
    {rows \in [filenames -> StoredHistograms(bins)] :
        (stored_same_bytes /\ ExactMatch.filename \in filenames) =>
            rows[ExactMatch.filename] = histogram_to_json(RedHistogram(bins))}

\* A value Python takes as true in "if filename and histogram".
Truthy(j) == j.k \notin {"null", "empty"}

\* fetch_histograms_from_supabase (lines 19-49): query is what the select
\* gave, an exception or the column of each row found.
fetch_histograms_from_supabase(query) ==
    IF query.raised THEN NoHistograms
    ELSE [f \in {g \in DOMAIN query.rows : g # "" /\ Truthy(query.rows[g])} |->
             query.rows[f]]

\* Variant of the next definition that weighs both scores by vector_weight.
WeightedSimilarityOneWeight(vector_score, color_score, cfg) ==
    cfg.vector_weight * vector_score + cfg.vector_weight * color_score
\* calculate_weighted_similarity (lines 51-68).
calculate_weighted_similarity(vector_score, color_score, cfg) ==
    cfg.vector_weight * vector_score + cfg.color_weight * color_score

\* The body of the rerank loop (lines 162-192) for one vector result.
EnhancedResult(result, hmap, qjson, cfg) ==
    LET color_score ==
            IF result.filename \in DOMAIN hmap
            THEN calculate_color_similarity(qjson, hmap[result.filename],
                                            cfg.bhattacharyya_a, cfg.bhattacharyya_b)
            ELSE 0
    IN  [id |-> result.id,
         filename |-> result.filename,
         vector_similarity |-> result.score,
         color_similarity |-> color_score,
         final_score |-> calculate_weighted_similarity(result.score, color_score, cfg),
         enriched |-> FALSE]

\* Variant of the next definition that skips a result whose histogram is missing.
ScoreCandidatesWithHistogram(results, hmap, qjson, cfg) ==
    LET HasHistogram(result) == result.filename \in DOMAIN hmap
        kept == SelectSeq(results, HasHistogram)
    IN  [i \in DOMAIN kept |-> EnhancedResult(kept[i], hmap, qjson, cfg)]
\* The rerank loop (lines 161-192).
ScoreCandidates(results, hmap, qjson, cfg) ==
    [i \in DOMAIN results |-> EnhancedResult(results[i], hmap, qjson, cfg)]

\* Variant of the next definition that sorts ascending and reverses the list.
SortByFinalScoreReversed(results) ==
    LET n == Len(results)
        reversed == [i \in 1..n |-> results[n + 1 - i]]
    IN  PySortDesc(reversed, [i \in 1..n |-> reversed[i].final_score])
\* Sort by weighted similarity (line 195).
SortByFinalScore(results) ==
    PySortDesc(results, [i \in DOMAIN results |-> results[i].final_score])

\* Step 4 (lines 135-155).
FetchHistograms ==
    /\ pc = "histogram_fetch"
    /\ SearchFrame
    /\ \E store \in {"unconfigured", "unreachable", "up"} :
          IF store = "unconfigured"
          THEN /\ response' = SearchFailed("SUPABASE_URL and SUPABASE_ANON_KEY environment variables are required")
               /\ pc' = "done"
               /\ faults' = faults \cup {"store_config"}
               /\ UNCHANGED <<calls, histogram_map>>
          ELSE IF store = "unreachable"
          THEN /\ response' = SearchFailed("supabase client error")
               /\ pc' = "done"
               /\ faults' = faults \cup {"store_connect"}
               /\ calls' = calls \cup {"store_connect"}
               /\ UNCHANGED histogram_map
          ELSE \E query \in {[raised |-> TRUE, rows |-> NoHistograms]} \cup
                            {[raised |-> FALSE, rows |-> rows] :
                               rows \in StoredRows(Filenames(vector_results),
                                                   config.histogram_bins)} :
                  /\ histogram_map' = fetch_histograms_from_supabase(query)
                  /\ pc' = "rerank"
                  /\ faults' = IF query.raised THEN faults \cup {"histogram_query"}
                               ELSE faults
                  /\ calls' = calls \cup {"store_connect", "histogram_query"}
                  /\ UNCHANGED response
    /\ index_response' = NoResponse
    /\ UNCHANGED <<image, config, query_histogram_json, vector_results,
                   enhanced_results, final_results>>

\* Variant of the next definition that keeps at least one candidate.
TakeFinalAtLeastOne(results, final_top_k) == PySlice(results, Max(final_top_k, 1))

\* "final_results = enhanced_results[:config.final_top_k]" (line 198).
TakeFinal(results, final_top_k) == PySlice(results, final_top_k)

\* Step 5 (lines 157-201).
Rerank ==
    /\ pc = "rerank"
    /\ SearchFrame
    /\ enhanced_results' =
          SortByFinalScore(
              ScoreCandidates(vector_results, histogram_map, query_histogram_json, config))
    /\ final_results' = TakeFinal(enhanced_results', config.final_top_k)
    /\ pc' = "enrich"
    /\ UNCHANGED <<image, config, query_histogram_json, index_response, vector_results,
                   histogram_map, response, calls, faults>>

\* The enrichment loop (lines 218-226): metadata_map has a record for the
\* filenames in found.
EnrichResults(results, found) ==
    [i \in DOMAIN results |->
        IF results[i].filename \in found
        THEN [results[i] EXCEPT !.enriched = TRUE]
        ELSE results[i]]

\* The returned dict of a completed search (lines 233-237).
FoundMatches(results) ==
    [results |-> results, error |-> NoError, message |-> "Found enhanced matches",
     config |-> get_config_dict(config)]

\* Step 6 (lines 203-237): the select raises, or gives the rows it found.
Enrich ==
    /\ pc = "enrich"
    /\ SearchFrame
    /\ \E query \in {[raised |-> TRUE, found |-> {}]} \cup
                    {[raised |-> FALSE, found |-> fs] :
                        fs \in SUBSET Filenames(final_results)} :
          IF query.raised
          THEN /\ response' = SearchFailed("metadata query error")
               /\ faults' = faults \cup {"enrich_query"}
               /\ UNCHANGED final_results
          ELSE /\ final_results' = EnrichResults(final_results, query.found)
               /\ response' = FoundMatches(final_results')
               /\ UNCHANGED faults
    /\ pc' = "done"
    /\ calls' = calls \cup {"enrich_query"}
    /\ UNCHANGED <<image, config, query_histogram_json, index_response, vector_results,
                   histogram_map, enhanced_results>>

Next ==
    \/ ExtractQueryHistogram
    \/ GenerateQueryEmbedding
    \/ VectorSearch
    \/ FetchHistograms
    \/ Rerank
    \/ Enrich

Spec == Init /\ [][Next]_vars

\* The search under the default weights, threshold and sigmoid parameters,
\* for a query whose bytes were ingested before.
ExactInit ==
    /\ pc = "histogram"
    /\ image = "red"
    /\ config \in {c \in Configs :
                      /\ c.similarity_threshold = DefaultThreshold
                      /\ c.vector_weight = DefaultVectorWeight
                      /\ c.color_weight = DefaultColorWeight
                      /\ c.final_top_k >= 1}
    /\ query_histogram_json = JsonNull
    /\ index_response = NoResponse
    /\ vector_results = <<>>
    /\ histogram_map = NoHistograms
    /\ enhanced_results = <<>>
    /\ final_results = <<>>
    /\ response = NoResponseYet
    /\ calls = {}
    /\ faults = {}
    /\ stored_same_bytes = TRUE
    /\ ConfigIdle
    /\ ClipIdle
    /\ BatchIdle
    /\ ColorIdle
    /\ IngestIdle

SpecExact == ExactInit /\ [][Next]_vars

(***************************************************************************)
(* search_config.py: construction, loading and reloading of SearchConfig   *)
(***************************************************************************)
DefaultVectorTopK == 20
DefaultFinalTopK == 10
DefaultHistogramBins == 8

\* At most this many SearchConfig objects are made in one run.
MaxConfigs == 2

\* SearchConfig(): every field at its default.
SearchConfigDefault ==
    [vector_top_k |-> DefaultVectorTopK,
     final_top_k |-> DefaultFinalTopK,
     similarity_threshold |-> DefaultThreshold,
     histogram_bins |-> DefaultHistogramBins,
     bhattacharyya_a |-> DefaultA,
     bhattacharyya_b |-> DefaultB,
     vector_weight |-> DefaultVectorWeight,
     color_weight |-> DefaultColorWeight]

\* The warning of __post_init__: the weights do not sum to 1.0.
PostInitWarns(c) == c.vector_weight + c.color_weight # Scale

\* Field values a caller passes to SearchConfig(...).
ConstructorArgs ==
    [vector_top_k : {5, DefaultVectorTopK},
     final_top_k : {-1, DefaultFinalTopK},
     similarity_threshold : {DefaultThreshold},
     histogram_bins : {-1, 0, DefaultHistogramBins},
     bhattacharyya_a : {DefaultA},
     bhattacharyya_b : {DefaultB},
     vector_weight : {DefaultVectorWeight, 500},
     color_weight : {DefaultColorWeight}]

\* Variant of the next definition that also rejects weights that do not sum
\* to 1.0.
SearchConfigNewStrictWeights(args) ==
    [called |-> TRUE, args |-> args,
     outcome |-> IF PostInitWarns(args) THEN "ValueError" ELSE PostInit(args),
     warned |-> PostInitWarns(args)]

\* SearchConfig(**args): the dataclass stores the fields and runs
\* __post_init__, which warns first and then validates.
SearchConfigNew(args) ==
    [called |-> TRUE, args |-> args,
     outcome |-> PostInit(args),
     warned |-> PostInitWarns(args)]

\* An environment variable: unset, set to text int() rejects, or set to an
\* integer.
Unset == [set |-> FALSE, int |-> FALSE, n |-> 0]
NotANumber == [set |-> TRUE, int |-> FALSE, n |-> 0]
EnvInt(n) == [set |-> TRUE, int |-> TRUE, n |-> n]

Envs ==
    [VECTOR_TOP_K : {Unset, NotANumber, EnvInt(5)},
     FINAL_TOP_K : {Unset, EnvInt(-1)},
     HISTOGRAM_BINS : {Unset, EnvInt(0)}]

\* int(os.getenv(name, default))
GetenvInt(v, default) == IF v.set THEN v ELSE EnvInt(default)

\* The config the environment asks for, before validation.
EnvConfig(e) ==
    [SearchConfigDefault EXCEPT
        !.vector_top_k = GetenvInt(e.VECTOR_TOP_K, DefaultVectorTopK).n,
        !.final_top_k = GetenvInt(e.FINAL_TOP_K, DefaultFinalTopK).n,
        !.histogram_bins = GetenvInt(e.HISTOGRAM_BINS, DefaultHistogramBins).n]

\* Variant of the next definition that takes every value as an integer.
EnvParsesAlways(e) == TRUE

\* int() accepts the three values.
EnvParses(e) ==
    /\ GetenvInt(e.VECTOR_TOP_K, DefaultVectorTopK).int
    /\ GetenvInt(e.FINAL_TOP_K, DefaultFinalTopK).int
    /\ GetenvInt(e.HISTOGRAM_BINS, DefaultHistogramBins).int

\* Variant of the next definition without the fallback to SearchConfig() when
\* validation fails.
LoadConfigUnvalidated(e) ==
    IF EnvParses(e) THEN EnvConfig(e) ELSE SearchConfigDefault

\* load_config_from_env: a ValueError of int() or of __post_init__ is caught
\* and the default SearchConfig() is returned.
load_config_from_env(e) ==
    IF EnvParses(e) /\ PostInit(EnvConfig(e)) = "ok"
    THEN EnvConfig(e)
    ELSE SearchConfigDefault

\* The environment changes between calls.
SetEnv ==
    /\ \E e \in Envs : e # env /\ env' = e
    /\ UNCHANGED <<cfg_heap, global_config, query_config, last_construct,
                   query_echo, query_used>>
    /\ ConfigFrame

\* A caller constructs a SearchConfig directly.
ConstructConfig ==
    /\ Len(cfg_heap) < MaxConfigs
    /\ \E args \in ConstructorArgs :
        /\ last_construct' = SearchConfigNew(args)
        /\ cfg_heap' = IF last_construct'.outcome = "ok"
                       THEN Append(cfg_heap, args) ELSE cfg_heap
    /\ UNCHANGED <<env, global_config, query_config, query_echo, query_used>>
    /\ ConfigFrame

\* get_search_config, called by a query at its start (enhanced_search.py:82):
\* loads the global on first use and hands out the global object.
get_search_config ==
    /\ query_config = 0
    /\ IF global_config = 0
       THEN /\ Len(cfg_heap) < MaxConfigs
            /\ cfg_heap' = Append(cfg_heap, load_config_from_env(env))
            /\ global_config' = Len(cfg_heap')
       ELSE UNCHANGED <<cfg_heap, global_config>>
    /\ query_config' = global_config'
    /\ query_echo' = Some(get_config_dict(cfg_heap'[query_config']))
    /\ query_used' = None
    /\ UNCHANGED <<env, last_construct>>
    /\ ConfigFrame

\* Variant of the next definition that asks for the global config again.
StageConfigFromGlobal(local, global) == global

\* The object a stage of the query reads its parameters from: the local
\* variable config (enhanced_search.py:96, 120-121, 172-173, 178, 198).
StageConfig(local, global) == local

\* A stage of the running query reads its parameters.
QueryStage ==
    /\ query_config # 0
    /\ query_used' = Some(cfg_heap[StageConfig(query_config, global_config)])
    /\ UNCHANGED <<env, cfg_heap, global_config, query_config, last_construct,
                   query_echo>>
    /\ ConfigFrame

\* The query ends and drops its config.
QueryDone ==
    /\ query_config # 0
    /\ query_config' = 0
    /\ query_echo' = None
    /\ query_used' = None
    /\ UNCHANGED <<env, cfg_heap, global_config, last_construct>>
    /\ ConfigFrame

\* reload_config: a new object replaces the global.
reload_config ==
    /\ Len(cfg_heap) < MaxConfigs
    /\ cfg_heap' = Append(cfg_heap, load_config_from_env(env))
    /\ global_config' = Len(cfg_heap')
    /\ UNCHANGED <<env, query_config, last_construct, query_echo, query_used>>
    /\ ConfigFrame

\* The search is not running.
SearchIdle ==
    /\ pc = "done"
    /\ image = "red"
    /\ config = [SearchConfigDefault EXCEPT !.vector_top_k = 1, !.final_top_k = 1,
                                            !.histogram_bins = 2]
    /\ query_histogram_json = JsonNull
    /\ index_response = NoResponse
    /\ vector_results = <<>>
    /\ histogram_map = NoHistograms
    /\ enhanced_results = <<>>
    /\ final_results = <<>>
    /\ response = NoResponseYet
    /\ calls = {}
    /\ faults = {}
    /\ stored_same_bytes = FALSE

ConfigInit ==
    /\ SearchIdle
    /\ ClipIdle
    /\ BatchIdle
    /\ ColorIdle
    /\ IngestIdle
    /\ env \in Envs
    /\ cfg_heap = <<>>
    /\ global_config = 0
    /\ query_config = 0
    /\ last_construct = NoConstruct
    /\ query_echo = None
    /\ query_used = None

ConfigNext ==
    \/ SetEnv
    \/ ConstructConfig
    \/ get_search_config
    \/ QueryStage
    \/ QueryDone
    \/ reload_config

SpecConfig == ConfigInit /\ [][ConfigNext]_vars

(***************************************************************************)
(* enhanced_embed.py: get_clip_model called from several threads           *)
(***************************************************************************)
\* At most this many calls of get_clip_model in one run.
MaxCalls == 3

\* A CLIP model object as from_pretrained returns it.
FreshModel == [on_device |-> FALSE, warm |-> FALSE]

\* A step inside the try block either completes or raises; the except clause
\* logs and re-raises, leaving the globals as they are.
Raise(t) ==
    /\ caller_pc' = [caller_pc EXCEPT ![t] = "raised"]
    /\ UNCHANGED <<clip_model, clip_processor, model_loaded, model_heap,
                   processor_count, caller_local, caller_ret, call_count>>

\* The callers that are inside a call of get_clip_model.
Running == {t \in Callers : caller_pc[t] \notin {"idle", "returned", "raised"}}

\* Variant of the next definition that tests the cached objects instead of
\* the flag: "if _model is not None and _processor is not None: return".
EnterChecksObjects(t) ==
    /\ caller_pc[t] \in {"idle", "returned", "raised"}
    /\ call_count < MaxCalls
    /\ call_count' = call_count + 1
    /\ overlapped' = (overlapped \/ Running # {})
    /\ IF clip_model # 0 /\ clip_processor # 0
       THEN /\ caller_ret' = [caller_ret EXCEPT ![t] =
                    [model |-> clip_model, processor |-> clip_processor]]
            /\ caller_pc' = [caller_pc EXCEPT ![t] = "returned"]
       ELSE /\ caller_ret' = [caller_ret EXCEPT ![t] = NoReturn]
            /\ caller_pc' = [caller_pc EXCEPT ![t] = "load_processor"]
    /\ UNCHANGED <<clip_model, clip_processor, model_loaded, model_heap,
                   processor_count, caller_local>>

\* get_clip_model, entry: "if _model_loaded: return _model, _processor";
\* otherwise the caller goes on to load. There is no lock.
Enter(t) ==
    /\ caller_pc[t] \in {"idle", "returned", "raised"}
    /\ call_count < MaxCalls
    /\ call_count' = call_count + 1
    /\ overlapped' = (overlapped \/ Running # {})
    /\ IF model_loaded
       THEN /\ caller_ret' = [caller_ret EXCEPT ![t] =
                    [model |-> clip_model, processor |-> clip_processor]]
            /\ caller_pc' = [caller_pc EXCEPT ![t] = "returned"]
       ELSE /\ caller_ret' = [caller_ret EXCEPT ![t] = NoReturn]
            /\ caller_pc' = [caller_pc EXCEPT ![t] = "load_processor"]
    /\ UNCHANGED <<clip_model, clip_processor, model_loaded, model_heap,
                   processor_count, caller_local>>

\* Step 1: _processor = CLIPProcessor.from_pretrained(model_name)
LoadProcessor(t) ==
    /\ caller_pc[t] = "load_processor"
    /\ \/ /\ processor_count' = processor_count + 1
          /\ clip_processor' = processor_count'
          /\ caller_pc' = [caller_pc EXCEPT ![t] = "load_model"]
          /\ UNCHANGED <<clip_model, model_loaded, model_heap, caller_local,
                         caller_ret, call_count>>
       \/ Raise(t)

\* Step 2: _model = CLIPModel.from_pretrained(model_name)
LoadModel(t) ==
    /\ caller_pc[t] = "load_model"
    /\ \/ /\ model_heap' = Append(model_heap, FreshModel)
          /\ clip_model' = Len(model_heap')
          /\ caller_pc' = [caller_pc EXCEPT ![t] = "to_device"]
          /\ UNCHANGED <<clip_processor, model_loaded, processor_count,
                         caller_local, caller_ret, call_count>>
       \/ Raise(t)

\* Step 3, right-hand side of "_model = _model.to(device)": the global is read
\* and that object is moved to the device (Module.to works in place and
\* returns the module).
ToDevice(t) ==
    /\ caller_pc[t] = "to_device"
    /\ \/ /\ model_heap' = [model_heap EXCEPT ![clip_model].on_device = TRUE]
          /\ caller_local' = [caller_local EXCEPT ![t] = clip_model]
          /\ caller_pc' = [caller_pc EXCEPT ![t] = "store_model"]
          /\ UNCHANGED <<clip_model, clip_processor, model_loaded,
                         processor_count, caller_ret, call_count>>
       \/ Raise(t)

\* Step 3, the assignment to the global _model.
StoreModel(t) ==
    /\ caller_pc[t] = "store_model"
    /\ clip_model' = caller_local[t]
    /\ caller_pc' = [caller_pc EXCEPT ![t] = "pre_warm"]
    /\ UNCHANGED <<clip_processor, model_loaded, model_heap, processor_count,
                   caller_local, caller_ret, call_count>>

\* Step 4: a dummy forward pass through the global _model.
PreWarm(t) ==
    /\ caller_pc[t] = "pre_warm"
    /\ \/ /\ model_heap' = [model_heap EXCEPT ![clip_model].warm = TRUE]
          /\ caller_pc' = [caller_pc EXCEPT ![t] = "set_loaded"]
          /\ UNCHANGED <<clip_model, clip_processor, model_loaded,
                         processor_count, caller_local, caller_ret, call_count>>
       \/ Raise(t)

\* "_model_loaded = True; return _model, _processor"
SetLoaded(t) ==
    /\ caller_pc[t] = "set_loaded"
    /\ model_loaded' = TRUE
    /\ caller_ret' = [caller_ret EXCEPT ![t] =
            [model |-> clip_model, processor |-> clip_processor]]
    /\ caller_pc' = [caller_pc EXCEPT ![t] = "returned"]
    /\ UNCHANGED <<clip_model, clip_processor, model_heap, processor_count,
                   caller_local, call_count>>

ClipEnter == \E t \in Callers : Enter(t) /\ ClipFrame
ClipLoadProcessor == \E t \in Callers : LoadProcessor(t) /\ UNCHANGED overlapped /\ ClipFrame
ClipLoadModel == \E t \in Callers : LoadModel(t) /\ UNCHANGED overlapped /\ ClipFrame
ClipToDevice == \E t \in Callers : ToDevice(t) /\ UNCHANGED overlapped /\ ClipFrame
ClipStoreModel == \E t \in Callers : StoreModel(t) /\ UNCHANGED overlapped /\ ClipFrame
ClipPreWarm == \E t \in Callers : PreWarm(t) /\ UNCHANGED overlapped /\ ClipFrame
ClipSetLoaded == \E t \in Callers : SetLoaded(t) /\ UNCHANGED overlapped /\ ClipFrame

ClipInit ==
    /\ SearchIdle
    /\ ConfigIdle
    /\ ClipIdle
    /\ BatchIdle
    /\ ColorIdle
    /\ IngestIdle

ClipNext ==
    \/ ClipEnter
    \/ ClipLoadProcessor
    \/ ClipLoadModel
    \/ ClipToDevice
    \/ ClipStoreModel
    \/ ClipPreWarm
    \/ ClipSetLoaded

SpecClip == ClipInit /\ [][ClipNext]_vars

(***************************************************************************)
(* pinecone_client.py batch_store, migrate_to_pinecone_safe.py             *)
(***************************************************************************)
\* Items per batch, and batches per run.
MaxBatch == 3
MaxBatches == 2

\* An item of embeddings_data: "ok", "malformed" (a key of the item is
\* missing, so item["image_id"], item["embedding"] or item["metadata"] raises
\* KeyError) or "rejected" (the index refuses the vector, so the upsert
\* request that carries it raises).
ItemKinds == {"ok", "malformed", "rejected"}

Batches == UNION {[1..n -> ItemKinds] : n \in 0..MaxBatch}

Has(items, kind) == \E i \in DOMAIN items : items[i] = kind

\* PineconeClient.batch_store: the vectors are built in one loop and sent in
\* one upsert, all inside one try; any exception is logged and 0 is returned.
\* The result is the returned count and the places of the items stored.
batch_store(items, index_up) ==
    IF Has(items, "malformed") THEN [count |-> 0, stored |-> {}]
    ELSE IF ~index_up \/ Has(items, "rejected") THEN [count |-> 0, stored |-> {}]
    ELSE [count |-> Len(items), stored |-> DOMAIN items]

\* upload_batch_to_pinecone: creates a client, calls batch_store and returns
\* whether anything was uploaded; a failure to create the client returns False.
UploadBatch ==
    /\ batch_num < MaxBatches
    /\ \E items \in Batches, client_ok \in BOOLEAN, index_up \in BOOLEAN :
        LET stored == batch_store(items, index_up)
        IN  /\ batch_num' = batch_num + 1
            /\ last_batch' = [items |-> items, client_ok |-> client_ok,
                               index_up |-> index_up]
            /\ IF client_ok
               THEN /\ batch_returned' = stored.count
                    /\ upload_returned' = (stored.count > 0)
                    /\ index_items' = index_items \cup
                            {<<batch_num', i>> : i \in stored.stored}
               ELSE /\ batch_returned' = 0
                    /\ upload_returned' = FALSE
                    /\ UNCHANGED index_items
    /\ BatchFrame

BatchInit ==
    /\ SearchIdle
    /\ ConfigIdle
    /\ ClipIdle
    /\ BatchIdle
    /\ ColorIdle
    /\ IngestIdle
    /\ ColorIdle

BatchNext == UploadBatch

SpecBatch == BatchInit /\ [][BatchNext]_vars

(***************************************************************************)
(* color_similarity.py called on its own                                   *)
(***************************************************************************)
\* Entries per histogram array.
MaxHistLen == 2

\* Entries of a histogram array, in units of 1/HistUnit: arrays need not sum
\* to 1.
HistEntries == {0, 1, HistUnit, 2 * HistUnit}

HistArrays == UNION {[1..n -> HistEntries] : n \in 0..MaxHistLen}

\* The argument is None, "", text that does not deserialize, or the JSON of
\* the array.
JsonKinds == {"null", "empty", "bad", "list"}

JsonArg(kind, h) ==
    IF kind = "list" THEN histogram_to_json(h) ELSE [k |-> kind, v |-> <<>>]

Called(outcome) ==
    [called |-> TRUE, raised |-> outcome.raised, value |-> outcome.value]

\* calculate_bhattacharyya_distance(hist_a, hist_b)
ComputeDistance ==
    /\ ~distance_result.called
    /\ distance_result' = Called(DistanceCall(hist_a, hist_b))
    /\ UNCHANGED <<hist_a, hist_b, json_kind_a, json_kind_b, similarity_result>>
    /\ ColorFrame

\* calculate_color_similarity(json_a, json_b) with the default a and b.
ComputeSimilarity ==
    /\ ~similarity_result.called
    /\ similarity_result' =
            Called(SimilarityCall(JsonArg(json_kind_a, hist_a),
                                  JsonArg(json_kind_b, hist_b),
                                  DefaultA, DefaultB))
    /\ UNCHANGED <<hist_a, hist_b, json_kind_a, json_kind_b, distance_result>>
    /\ ColorFrame

ColorInit ==
    /\ SearchIdle
    /\ ConfigIdle
    /\ ClipIdle
    /\ BatchIdle
    /\ IngestIdle
    /\ hist_a \in HistArrays
    /\ hist_b \in HistArrays
    /\ json_kind_a \in JsonKinds
    /\ json_kind_b \in JsonKinds
    /\ distance_result = NotCalled
    /\ similarity_result = NotCalled

ColorNext ==
    \/ ComputeDistance
    \/ ComputeSimilarity

SpecColor == ColorInit /\ [][ColorNext]_vars

(***************************************************************************)
(* enhanced_ingestion.py: enhanced_batch_ingestion                         *)
(***************************************************************************)
\* Image paths per call.
MaxPaths == 3

\* An image path: the file is "missing", cannot be read ("unreadable": open
\* raises), holds bytes that do not decode ("corrupt"), holds an image whose
\* embedding fails ("embed_fail": get_clip_embedding raises), or is "ok".
PathKinds == {"missing", "unreadable", "corrupt", "embed_fail", "ok"}

PathLists == UNION {[1..n -> PathKinds] : n \in 0..MaxPaths}

\* The bytes read from a readable path.
PathImage(kind) == IF kind = "corrupt" THEN "corrupt" ELSE "red"

\* process_image_with_histograms: None when the histogram is None or when
\* anything raises (the except clause returns None), a result otherwise.
process_image_with_histograms(kind, bins) ==
    IF ~extract_lab_histogram(PathImage(kind), bins).ok THEN None
    ELSE IF kind = "embed_fail" THEN None
    ELSE Some(kind)

\* What the Supabase upload of one item does: the storage upload raises, the
\* metadata upsert is refused, or both succeed.  And whether
\* store_embedding_in_pinecone returns True.
SupabaseOutcomes == {"raise", "refused", "stored"}

NoCounts == [processed |-> 0, errors |-> 0, supabase_stored |-> 0, pinecone_stored |-> 0]

\* Variant of the next definition in which an exception of the Supabase upload
\* is not caught by the inner try and reaches the except clause of the loop.
LoopBodyUploadUncaught(kind, bins, supa_on, pine_on, supa, pine) ==
    IF kind = "missing" THEN [NoCounts EXCEPT !.errors = 1]
    ELSE IF kind = "unreadable" THEN [NoCounts EXCEPT !.errors = 1]
    ELSE IF ~process_image_with_histograms(kind, bins).ok
    THEN [NoCounts EXCEPT !.errors = 1]
    ELSE IF supa_on /\ supa = "raise"
    THEN [NoCounts EXCEPT !.processed = 1, !.errors = 1]
    ELSE [processed |-> 1,
          errors |-> 0,
          supabase_stored |-> IF supa_on /\ supa = "stored" THEN 1 ELSE 0,
          pinecone_stored |-> IF pine_on /\ pine THEN 1 ELSE 0]

\* One pass through the loop body (lines 234-298): what it adds to the
\* counters.  A missing file and a None result count an error and continue;
\* an exception of open counts an error in the except clause; after
\* processed is counted, the uploads catch their own exceptions.
LoopBody(kind, bins, supa_on, pine_on, supa, pine) ==
    IF kind = "missing" THEN [NoCounts EXCEPT !.errors = 1]
    ELSE IF kind = "unreadable" THEN [NoCounts EXCEPT !.errors = 1]
    ELSE IF ~process_image_with_histograms(kind, bins).ok
    THEN [NoCounts EXCEPT !.errors = 1]
    ELSE [processed |-> 1,
          errors |-> 0,
          supabase_stored |-> IF supa_on /\ supa = "stored" THEN 1 ELSE 0,
          pinecone_stored |-> IF pine_on /\ pine THEN 1 ELSE 0]

\* Variant of the next definition that stays on an item that failed.
NextIterationRetry(i, counts) == IF counts.errors > 0 THEN i ELSE i + 1

\* "for i, image_path in enumerate(image_paths)": the next iteration takes the
\* next path whatever the last one did.
NextIteration(i, counts) == i + 1

\* Lines 188-231: the clients are made and stats is initialised.  Missing
\* Supabase credentials switch the Supabase upload off; a client that cannot
\* be made ends the call with an error dictionary.
IngestStart ==
    /\ ingest_pc = "start"
    /\ \E supabase \in {"no_credentials", "raise", "ok"}, pinecone_ok \in BOOLEAN :
          IF supabase_upload /\ supabase = "raise"
          THEN /\ ingest_pc' = "error"
               /\ UNCHANGED <<supabase_upload, stats>>
          ELSE IF pinecone_upload /\ ~pinecone_ok
          THEN /\ ingest_pc' = "error"
               /\ UNCHANGED <<supabase_upload, stats>>
          ELSE /\ ingest_pc' = "loop"
               /\ supabase_upload' = (supabase_upload /\ supabase = "ok")
               /\ stats' = [NoStats EXCEPT !.total_images = Len(image_paths)]
    /\ UNCHANGED <<image_paths, pinecone_upload, loop_i, attempted, item_counts>>
    /\ IngestFrame

\* One iteration of the loop.
IngestItem ==
    /\ ingest_pc = "loop"
    /\ loop_i < Len(image_paths)
    /\ \E supa \in SupabaseOutcomes, pine \in BOOLEAN :
          LET i == loop_i + 1
              counts == LoopBody(image_paths[i], DefaultHistogramBins,
                                 supabase_upload, pinecone_upload, supa, pine)
          IN  /\ attempted' = Append(attempted, i)
              /\ item_counts' = Append(item_counts, counts)
              /\ stats' = [stats EXCEPT
                              !.processed = @ + counts.processed,
                              !.errors = @ + counts.errors,
                              !.supabase_stored = @ + counts.supabase_stored,
                              !.pinecone_stored = @ + counts.pinecone_stored]
              /\ loop_i' = NextIteration(i, counts) - 1
    /\ UNCHANGED <<ingest_pc, image_paths, supabase_upload, pinecone_upload>>
    /\ IngestFrame

\* The loop is over: the statistics are logged and stats is returned.
IngestReturn ==
    /\ ingest_pc = "loop"
    /\ loop_i >= Len(image_paths)
    /\ ingest_pc' = "returned"
    /\ UNCHANGED <<image_paths, supabase_upload, pinecone_upload, loop_i, attempted,
                   item_counts, stats>>
    /\ IngestFrame

IngestInit ==
    /\ SearchIdle
    /\ ConfigIdle
    /\ ClipIdle
    /\ BatchIdle
    /\ ColorIdle
    /\ ingest_pc = "start"
    /\ image_paths \in PathLists
    /\ supabase_upload \in BOOLEAN
    /\ pinecone_upload \in BOOLEAN
    /\ loop_i = 0
    /\ attempted = <<>>
    /\ item_counts = <<>>
    /\ stats = NoStats

IngestNext ==
    \/ IngestStart
    \/ IngestItem
    \/ IngestReturn

SpecIngest == IngestInit /\ [][IngestNext]_vars

(***************************************************************************)
(* Properties                                                              *)
(***************************************************************************)
StoreCalls == {"store_connect", "histogram_query", "enrich_query"}
IndexCalls == {"index_connect", "index_query"}

SortedByScore(results) ==
    \A i, j \in DOMAIN results : i < j => results[i].score >= results[j].score

\* search_similar has returned and its backend response is still at hand.
SearchReturned == index_response.kind # "none"

\* C1: for top_k >= 1, whatever the backend returned (matches in any order, or
\* an exception) and whatever the threshold, the list search_similar returns is
\* in non-increasing score order and has at most top_k entries.
C1_SortedAndLimited ==
    (SearchReturned /\ config.vector_top_k >= 1) =>
        /\ SortedByScore(vector_results)
        /\ Len(vector_results) <= config.vector_top_k

\* C1 witness: the backend returned more than top_k matches, out of score
\* order, and search_similar returned top_k of them.
C1_Witness ==
    /\ SearchReturned
    /\ config.vector_top_k >= 2
    /\ Len(index_response.matches) > config.vector_top_k
    /\ ~SortedByScore(index_response.matches)
    /\ Len(vector_results) = config.vector_top_k
    /\ vector_results[1].score > vector_results[2].score

NoMatchMeetsThreshold ==
    /\ index_response.kind = "matches"
    /\ index_response.matches # <<>>
    /\ \A i \in DOMAIN index_response.matches :
          index_response.matches[i].score < config.similarity_threshold

\* C2: when the backend returned at least one match and none has a score >=
\* similarity_threshold, search_similar (top_k >= 1) returns a non-empty list:
\* the first top_k fetched matches, threshold not applied.
C2_FallbackNonEmpty ==
    (NoMatchMeetsThreshold /\ config.vector_top_k >= 1) =>
        /\ vector_results # <<>>
        /\ Len(vector_results) = Min(config.vector_top_k, Len(index_response.matches))
        /\ \A i \in DOMAIN vector_results :
              /\ vector_results[i].score < config.similarity_threshold
              /\ \E j \in 1..config.vector_top_k :
                    /\ j \in DOMAIN index_response.matches
                    /\ index_response.matches[j] = vector_results[i]

\* C2 witness: two matches below the default threshold came back and both
\* are returned.
C2_Witness ==
    /\ NoMatchMeetsThreshold
    /\ config.similarity_threshold = DefaultThreshold
    /\ Len(index_response.matches) >= 2
    /\ Len(vector_results) = 2

\* The rerank stage has run.
Reranked == pc = "enrich" \/ (pc = "done" /\ "enrich_query" \in calls)

\* C3: a vector-stage candidate whose filename is absent from the fetched
\* histogram map is kept in the scored candidate set, with color_similarity 0
\* and final_score = vector_weight * vector_similarity; no candidate is dropped.
C3_MissingHistogramKept ==
    Reranked =>
        /\ Len(enhanced_results) = Len(vector_results)
        /\ \A i \in DOMAIN vector_results :
              vector_results[i].filename \notin DOMAIN histogram_map =>
                 \E k \in DOMAIN enhanced_results :
                    /\ enhanced_results[k].id = vector_results[i].id
                    /\ enhanced_results[k].vector_similarity = vector_results[i].score
                    /\ enhanced_results[k].color_similarity = 0
                    /\ enhanced_results[k].final_score =
                          config.vector_weight * vector_results[i].score

\* C3 witness: the histogram query answered, one candidate has a histogram
\* and a colour score, another candidate's histogram is missing.
C3_Witness ==
    /\ pc = "enrich"
    /\ "histogram_query" \notin faults
    /\ \E i, k \in DOMAIN enhanced_results :
          /\ enhanced_results[i].filename \in DOMAIN histogram_map
          /\ enhanced_results[i].color_similarity > 0
          /\ enhanced_results[k].filename # ""
          /\ enhanced_results[k].filename \notin DOMAIN histogram_map
          /\ enhanced_results[k].color_similarity = 0

\* C4 (as claimed): a failure of the metadata store at the histogram-fetch
\* stage (store not configured, client not created, or the histogram query
\* failing) does not fail the request; every returned candidate has
\* color_similarity 0.
C4_StoreFailureNotFatal ==
    (/\ pc = "done"
     /\ faults \cap {"store_config", "store_connect", "histogram_query"} # {}
     /\ "enrich_query" \notin faults) =>
        /\ response.error = NoError
        /\ response.message # "Search failed"
        /\ \A i \in DOMAIN response.results : response.results[i].color_similarity = 0

Ids(results) == [i \in DOMAIN results |-> results[i].id]

\* C5 (as claimed): a failure of the enrichment lookup (raising, or no record
\* for a candidate) never fails the request nor removes a candidate: the
\* returned list is the truncated list, in its order.
C5_EnrichmentFailureKeepsResults ==
    (pc = "done" /\ "enrich_query" \in calls) =>
        /\ response.error = NoError
        /\ Ids(response.results) = Ids(final_results)
        /\ Ids(final_results) = Ids(PySlice(enhanced_results, config.final_top_k))

\* C6 (as claimed): a failure of the index backend during the query surfaces
\* as a terminal failure response with an error message, which differs from
\* the response for an empty outcome.
C6_IndexFailureSurfaces ==
    (pc = "done" /\ "index_query" \in faults) =>
        /\ response.error # NoError
        /\ response.message = "Search failed"
        /\ response # NoSimilarImages

C8_InvalidImageIsTerminal ==
    (image = "corrupt" /\ pc # "histogram") =>
        /\ pc = "done"
        /\ response.error # NoError
        /\ response.message = "Search failed"
        /\ response.results = <<>>
        /\ calls = {"decode"}

\* C8 witness: a search of undecodable bytes has ended.
C8_Witness ==
    /\ image = "corrupt"
    /\ pc = "done"
    /\ "decode" \in faults

\* C9: when embedding generation fails after the query histogram was
\* extracted, the search ends with a failure response (error set, no results)
\* and makes no index or metadata-store call.
C9_EmbeddingFailureIsTerminal ==
    "embedding" \in faults =>
        /\ pc = "done"
        /\ query_histogram_json.k = "list"
        /\ response.error # NoError
        /\ response.message = "Search failed"
        /\ response.results = <<>>
        /\ calls \cap (IndexCalls \cup StoreCalls) = {}

\* C9 witness: the image decoded, the embedding call was made and failed.
C9_Witness ==
    /\ "embedding" \in faults
    /\ image = "red"
    /\ calls = {"decode", "embedding"}
    /\ pc = "done"

\* C10: every returned result has final_score = vector_weight *
\* vector_similarity + color_weight * color_similarity; with weights (1, 0)
\* that is vector_similarity, with weights (0, 1) it is color_similarity.
C10_FusedScore ==
    \A i \in DOMAIN response.results :
        LET r == response.results[i]
        IN  /\ r.final_score = config.vector_weight * r.vector_similarity
                               + config.color_weight * r.color_similarity
            /\ (config.vector_weight = Scale /\ config.color_weight = 0) =>
                  r.final_score = Scale * r.vector_similarity
            /\ (config.vector_weight = 0 /\ config.color_weight = Scale) =>
                  r.final_score = Scale * r.color_similarity

\* C10 witness: a result with both scores positive is returned under the
\* weights (0, 1) and carries its colour score.
C10_Witness ==
    /\ pc = "done"
    /\ config.vector_weight = 0
    /\ config.color_weight = Scale
    /\ \E i \in DOMAIN response.results :
          /\ response.results[i].color_similarity > 0
          /\ response.results[i].vector_similarity > 0
          /\ response.results[i].final_score = Scale * response.results[i].color_similarity

\* The rank of a candidate in the vector-stage list.
VectorRank(id) == CHOOSE i \in DOMAIN vector_results : vector_results[i].id = id

\* Higher final_score first; equal final_score in vector-stage order.
RankedBefore(a, b) ==
    \/ a.final_score > b.final_score
    \/ a.final_score = b.final_score /\ VectorRank(a.id) < VectorRank(b.id)

InRerankOrder(results) ==
    \A i, k \in DOMAIN results : i < k => RankedBefore(results[i], results[k])

\* C11: the reranked list, and the returned list, are in descending
\* final_score order, and candidates of equal final_score keep the relative
\* order they had in the vector-stage list.
C11_StableDescendingOrder ==
    Reranked =>
        /\ InRerankOrder(enhanced_results)
        /\ InRerankOrder(final_results)
        /\ InRerankOrder(response.results)

\* C11 witness: two candidates of different vector scores tie on final_score
\* and are returned in vector-stage order, behind nobody.
C11_Witness ==
    /\ pc = "done"
    /\ Len(response.results) = 2
    /\ response.results[1].final_score = response.results[2].final_score
    /\ response.results[1].vector_similarity # response.results[2].vector_similarity
    /\ VectorRank(response.results[1].id) < VectorRank(response.results[2].id)

\* The search ran to its end and returned its results.
Completed == pc = "done" /\ "enrich_query" \in calls /\ response.error = NoError

\* C12 (as claimed): for every accepted config at most final_top_k results
\* are returned, and no candidate left out has a final_score strictly greater
\* than a returned one.
C12_AtMostFinalTopK ==
    Completed =>
        /\ Len(response.results) <= config.final_top_k
        /\ \A k \in DOMAIN enhanced_results :
              (\A i \in DOMAIN response.results :
                   response.results[i].id # enhanced_results[k].id) =>
                 \A i \in DOMAIN response.results :
                    enhanced_results[k].final_score <= response.results[i].final_score


\* C13: SearchConfig(...) raises ValueError exactly when final_top_k exceeds
\* vector_top_k or histogram_bins is <= 0; weights that do not sum to 1.0 give
\* a warning and leave the outcome as the other fields decide it.
C13_ConstructionFailsIff ==
    last_construct.called =>
        LET a == last_construct.args
            invalid == a.final_top_k > a.vector_top_k \/ a.histogram_bins <= 0
        IN  /\ last_construct.outcome = "ValueError" <=> invalid
            /\ last_construct.outcome = "ok" <=> ~invalid
            /\ last_construct.warned <=> a.vector_weight + a.color_weight # Scale

C13_Witness ==
    /\ last_construct.called
    /\ last_construct.outcome = "ok"
    /\ last_construct.warned
    /\ cfg_heap # <<>>
    /\ cfg_heap[Len(cfg_heap)] = last_construct.args

\* Every SearchConfig object satisfies the validated constraints.
ConfigsValid ==
    \A i \in DOMAIN cfg_heap :
        /\ cfg_heap[i].final_top_k <= cfg_heap[i].vector_top_k
        /\ cfg_heap[i].histogram_bins > 0

\* No step changes a field of an existing SearchConfig object.
ConfigsKept ==
    \A i \in DOMAIN cfg_heap : i \in DOMAIN cfg_heap' /\ cfg_heap'[i] = cfg_heap[i]

\* C14: across queries, get_search_config, reload_config, changes of the
\* environment and direct constructions, every config object satisfies
\* final_top_k <= vector_top_k and histogram_bins > 0, and no step changes a
\* field of an object that exists.
C14_ConfigInvariantsKept == []ConfigsValid /\ [][ConfigsKept]_vars

C14_Witness ==
    /\ Len(cfg_heap) = 2
    /\ query_config = 1
    /\ global_config = 2
    /\ cfg_heap[1] # cfg_heap[2]
    /\ cfg_heap[2] = SearchConfigDefault
    /\ ~(EnvParses(env) /\ PostInit(EnvConfig(env)) = "ok")


\* The callers that are inside the loading part of get_clip_model.
Initializing == {t \in Callers : caller_pc[t] \notin {"idle", "returned", "raised"}}

\* C15 (as claimed): callers that race on the first use are serialised, so at
\* no time are two of them inside the initialization, and callers that were
\* handed a model were handed the same model and processor.
C15_OneInitialization ==
    /\ Cardinality(Initializing) <= 1
    /\ \A t, u \in Callers :
          (caller_pc[t] = "returned" /\ caller_pc[u] = "returned")
              => caller_ret[t] = caller_ret[u]


\* The items of the last batch that the index now holds.
StoredOfLastBatch ==
    {i \in DOMAIN last_batch.items : <<batch_num, i>> \in index_items}

\* C16 (as claimed): after batch_store on a batch in which some items fail
\* while the index answers, the items that do not fail are stored and the
\* returned count is the number of items stored.
C16_FailedItemsSkipped ==
    (batch_num > 0 /\ last_batch.client_ok /\ last_batch.index_up) =>
        /\ \A i \in DOMAIN last_batch.items :
              last_batch.items[i] = "ok" => i \in StoredOfLastBatch
        /\ batch_returned = Cardinality(StoredOfLastBatch)

\* C17 (as claimed): calculate_bhattacharyya_distance on two arrays of
\* different shapes raises to its caller instead of returning a distance.
C17_ShapeMismatchSignalled ==
    (distance_result.called /\ Len(hist_a) # Len(hist_b)) => distance_result.raised

\* The JSON argument is missing (None, "" or "[]") or does not deserialize.
MissingOrMalformed(kind, h) ==
    \/ kind \in {"null", "empty", "bad"}
    \/ kind = "list" /\ h = <<>>

C19_DistanceInUnitInterval ==
    (distance_result.called /\ Len(hist_a) = Len(hist_b)) =>
        /\ ~distance_result.raised
        /\ distance_result.value >= 0
        /\ distance_result.value <= Scale

C19_Witness ==
    /\ distance_result.called
    /\ Len(hist_a) = Len(hist_b)
    /\ SumSqrt(hist_a, hist_b, 1) > HistUnit
    /\ distance_result.value = 0


FailingPath(kind) == kind \in {"missing", "unreadable", "corrupt", "embed_fail"}

\* C21: the paths are attempted one at a time in list order, each at most once
\* and, when the loop has ended, each exactly once: a failed item is followed
\* by the next item and is not attempted again.
C21_EachPathOnceInOrder ==
    ingest_pc \in {"loop", "returned"} =>
        /\ Len(attempted) = loop_i
        /\ \A k \in DOMAIN attempted : attempted[k] = k
        /\ Len(attempted) <= Len(image_paths)
        /\ ingest_pc = "returned" => Len(attempted) = Len(image_paths)

C21_Witness ==
    /\ ingest_pc = "returned"
    /\ Len(image_paths) = 3
    /\ FailingPath(image_paths[1])
    /\ image_paths[2] = "ok"
    /\ image_paths[3] = "unreadable"
    /\ attempted = <<1, 2, 3>>
    /\ stats.processed = 1
    /\ stats.errors = 2
    /\ supabase_upload
    /\ stats.supabase_stored = 0


\* C30: after every iteration supabase_stored <= processed, pinecone_stored <=
\* processed and processed + errors <= total_images; each item attempted added
\* one to exactly one of processed and errors; and when the loop is over
\* processed + errors = total_images.
C30_CountersConsistent ==
    ingest_pc \in {"loop", "returned"} =>
        /\ stats.supabase_stored <= stats.processed
        /\ stats.pinecone_stored <= stats.processed
        /\ stats.processed + stats.errors <= stats.total_images
        /\ stats.processed + stats.errors = Len(item_counts)
        /\ \A k \in DOMAIN item_counts :
              item_counts[k].processed + item_counts[k].errors = 1
        /\ ingest_pc = "returned" =>
              stats.processed + stats.errors = stats.total_images

C30_Witness ==
    /\ ingest_pc = "returned"
    /\ stats.total_images = 3
    /\ stats.processed = 2
    /\ stats.errors = 1
    /\ supabase_upload /\ stats.supabase_stored = 1
    /\ pinecone_upload /\ stats.pinecone_stored = 0


\* The config get_search_config handed to the running query is valid.
ReturnedConfigValid ==
    query_config # 0 =>
        /\ cfg_heap[query_config].vector_top_k >= cfg_heap[query_config].final_top_k
        /\ cfg_heap[query_config].histogram_bins > 0

\* A step in which get_search_config loads the config from the environment
\* gives the config the environment asks for when every value parses and the
\* constraints hold, and the default SearchConfig otherwise.
LoadFallsBack ==
    (query_config = 0 /\ query_config' # 0 /\ global_config = 0) =>
        LET asked == [SearchConfigDefault EXCEPT
                         !.vector_top_k = IF env.VECTOR_TOP_K.set
                                          THEN env.VECTOR_TOP_K.n ELSE @,
                         !.final_top_k = IF env.FINAL_TOP_K.set
                                         THEN env.FINAL_TOP_K.n ELSE @,
                         !.histogram_bins = IF env.HISTOGRAM_BINS.set
                                            THEN env.HISTOGRAM_BINS.n ELSE @]
            unparsable == \E v \in {env.VECTOR_TOP_K, env.FINAL_TOP_K, env.HISTOGRAM_BINS} :
                              v.set /\ ~v.int
            violating == asked.vector_top_k < asked.final_top_k \/ asked.histogram_bins <= 0
        IN  cfg_heap'[query_config'] =
                IF unparsable \/ violating THEN SearchConfigDefault ELSE asked

\* C22: whatever the environment holds, get_search_config returns a config
\* with vector_top_k >= final_top_k and histogram_bins > 0; values that do not
\* parse or that violate a constraint give the default SearchConfig.
C22_EnvNeverGivesInvalidConfig == []ReturnedConfigValid /\ [][LoadFallsBack]_vars

C22_Witness ==
    /\ Len(cfg_heap) = 1
    /\ global_config = 1
    /\ query_config = 1
    /\ env.VECTOR_TOP_K = NotANumber
    /\ env.FINAL_TOP_K = EnvInt(-1)
    /\ cfg_heap[1] = SearchConfigDefault


\* The caller that begins a call in this step, if any.
Entering(t) == call_count' = call_count + 1 /\ caller_pc'[t] # caller_pc[t]

\* A step of get_clip_model calls that never overlapped.
SequentialStep ==
    ~overlapped' =>
        /\ \A t \in Callers :
              Entering(t) =>
                  IF model_loaded
                  THEN /\ caller_pc'[t] = "returned"
                       /\ caller_ret'[t] = [model |-> clip_model,
                                            processor |-> clip_processor]
                  ELSE caller_pc'[t] = "load_processor"
        /\ model_loaded =>
              /\ model_loaded'
              /\ clip_model' = clip_model
              /\ clip_processor' = clip_processor
              /\ model_heap' = model_heap
              /\ processor_count' = processor_count
        /\ \A t \in Callers :
              (caller_pc'[t] = "raised" /\ caller_pc[t] # "raised") => ~model_loaded'
        /\ (~model_loaded /\ model_loaded') =>
              \E t \in Callers : caller_pc[t] = "set_loaded" /\ caller_pc'[t] = "returned"

\* C23: when the calls of get_clip_model do not overlap, a call loads exactly
\* when no earlier call finished a load: once the flag is set every call
\* returns the cached model and processor and nothing is loaded or rebound,
\* and a call that raised leaves the flag false, so the next call loads again.
C23_SequentialCallsLoadOnce == [][SequentialStep]_vars

C23_Witness ==
    /\ ~overlapped
    /\ call_count = 3
    /\ caller_pc = [t \in Callers |-> IF t = 1 THEN "raised" ELSE "returned"]
    /\ model_loaded
    /\ Len(model_heap) = 2
    /\ clip_model = 2
    /\ caller_ret[2] = [model |-> 2, processor |-> clip_processor]


\* C24 (as claimed): in every reachable state, whatever the interleaving of
\* the callers, _model_loaded implies that the cached processor is set and the
\* cached model has been moved to its device and pre-warmed.
C24_LoadedImpliesInitialized ==
    model_loaded =>
        /\ clip_processor # 0
        /\ clip_model # 0
        /\ model_heap[clip_model].on_device
        /\ model_heap[clip_model].warm


\* The matches the backend returned for the last search_similar call.
Fetched == index_response.matches

SomeFetchedMeetsThreshold ==
    \E i \in DOMAIN Fetched : Fetched[i].score >= config.similarity_threshold

\* C25: when some fetched match has a score >= the threshold, every result
\* search_similar returns has a score >= the threshold (a score equal to the
\* threshold passes); a result below the threshold is returned only when no
\* fetched match meets the threshold.
C25_ThresholdFilters ==
    (index_response.kind = "matches" /\ SomeFetchedMeetsThreshold) =>
        /\ vector_results # <<>>
        /\ \A i \in DOMAIN vector_results :
              vector_results[i].score >= config.similarity_threshold

C25_Witness ==
    /\ index_response.kind = "matches"
    /\ Len(Fetched) = 3
    /\ Fetched[1].score < config.similarity_threshold
    /\ Fetched[2].score = config.similarity_threshold
    /\ Fetched[3].score < config.similarity_threshold
    /\ config.vector_top_k = 2
    /\ vector_results = <<Fetched[2]>>

\* The first k entries of a list.
FirstK(s, k) == SubSeq(s, 1, Min(k, Len(s)))

Descending(ms) == \A i, j \in DOMAIN ms : i < j => ms[i].score >= ms[j].score

\* The loop of search_similar without the break: every fetched match is
\* scanned.
RECURSIVE ScanEveryMatch(_, _, _, _, _)
ScanEveryMatch(matches, i, processed, all, threshold) ==
    IF i > Len(matches) THEN [processed |-> processed, all |-> all]
    ELSE ScanEveryMatch(matches, i + 1,
                        IF matches[i].score >= threshold
                        THEN Append(processed, matches[i]) ELSE processed,
                        Append(all, matches[i]), threshold)

\* C26: for matches that come in descending score order, search_similar
\* returns the first top_k matches with score >= threshold when there is one,
\* and the first top_k fetched matches otherwise; and that is what it would
\* return if the loop scanned every fetched match.
C26_EarlyStopKeepsResult ==
    (index_response.kind = "matches" /\ Descending(Fetched)) =>
        LET passing == SelectSeq(Fetched,
                                 LAMBDA m : m.score >= config.similarity_threshold)
            k == config.vector_top_k
        IN  /\ vector_results = IF passing # <<>> THEN FirstK(passing, k)
                                ELSE FirstK(Fetched, k)
            /\ vector_results =
                  SortAndLimit(
                      Fallback(ScanEveryMatch(Fetched, 1, <<>>, <<>>,
                                              config.similarity_threshold), k), k)

C26_Witness ==
    /\ index_response.kind = "matches"
    /\ Descending(Fetched)
    /\ Len(Fetched) = 3
    /\ Fetched[3].score >= config.similarity_threshold
    /\ config.vector_top_k = 2
    /\ vector_results = <<Fetched[1], Fetched[2]>>


\* C27: a running query reads its parameters from the config object it took
\* at its start, and the config it echoes is that of the same object, also
\* when reload_config has replaced the global config since.
C27_QueryUsesOneSnapshot ==
    query_config # 0 =>
        /\ query_echo.ok
        /\ query_echo.v = get_config_dict(cfg_heap[query_config])
        /\ query_used.ok => query_used.v = query_echo.v

C27_Witness ==
    /\ query_config = 1
    /\ global_config = 2
    /\ cfg_heap[1] # cfg_heap[2]
    /\ query_used.ok
    /\ query_used.v = cfg_heap[1]
    /\ query_echo.v = cfg_heap[1]


\* C28: the search always ends with a returned dictionary, and one that
\* carries an error has no results and the message "Search failed", also when
\* candidates had been scored and selected before the failing stage.
C28_ErrorMeansNoResults ==
    pc = "done" =>
        /\ response.message \in {"Search failed", "No similar images found",
                                 "Found enhanced matches"}
        /\ response.error # NoError =>
              /\ response.results = <<>>
              /\ response.message = "Search failed"

C28_Witness ==
    /\ pc = "done"
    /\ "enrich_query" \in faults
    /\ Len(enhanced_results) = 2
    /\ Len(final_results) = 2
    /\ response.error # NoError
    /\ response.results = <<>>

\* The ids of the candidates of the vector stage.
CandidateIds == {vector_results[i].id : i \in DOMAIN vector_results}

\* C29: on a successful response with final_top_k >= 0 every result is one of
\* the candidates of the vector stage, no candidate is returned twice, and
\* exactly min(|C|, final_top_k) results are returned.
C29_ResultsSelectCandidates ==
    (pc = "done" /\ response.error = NoError /\ config.final_top_k >= 0) =>
        /\ \A i \in DOMAIN response.results : response.results[i].id \in CandidateIds
        /\ \A i, j \in DOMAIN response.results :
              i # j => response.results[i].id # response.results[j].id
        /\ Len(response.results) = Min(Len(vector_results), config.final_top_k)

C29_Witness ==
    /\ Completed
    /\ config.final_top_k = 1
    /\ Len(vector_results) = 2
    /\ Len(response.results) = 1
    /\ response.results[1].id = vector_results[2].id

=============================================================================
